---- MODULE Spec2Model ----
(***************************************************************************)
(* A model of lib/ansible/modules/command.py: one invocation of main(),    *)
(* from the parameters the host hands to AnsibleModule to the exit_json /  *)
(* fail_json call that ends the module process.                            *)
(*                                                                         *)
(* Text (str / bytes) is a sequence of one-character strings, so that      *)
(* strip, split, basename, rstrip, abspath and glob are computed           *)
(* character by character as the library computes them.  The fixed pieces  *)
(* of a message are single tokens of such a sequence.                      *)
(***************************************************************************)
EXTENDS Integers, Sequences, FiniteSets, TLC

VARIABLES params, inv, twin, last

vars == <<params, inv, twin, last>>

(***************************************************************************)
(* Bounds of the model.                                                    *)
(***************************************************************************)
\* exit codes of the spawned process range over 0..MaxRc
MaxRc == 1
\* the spawned process runs for 0..MaxDur clock ticks
MaxDur == 1

(***************************************************************************)
(* Python values.                                                          *)
(***************************************************************************)
\* None for a str-typed parameter, and for a list-typed parameter
None == <<"<None>">>
NoneList == << <<"<None>">> >>

\* Python truthiness of a str parameter and of a list parameter: `if x`
Truthy(x) == x # None /\ x # <<>>
TruthyList(x) == x # NoneList /\ x # <<>>

\* the characters str.strip() and str.split() treat as whitespace
Whitespace == {" ", "\t", "\n", "\r"}

\* args.strip() == ''
StripIsEmpty(s) == \A i \in 1..Len(s) : s[i] \in Whitespace

\* The words of s separated by characters of seps, empty words dropped.
\* With seps = Whitespace this is str.split(); it is also shlex.split() for
\* the command lines drawn here, which hold no quote, backslash or comment
\* character.
RECURSIVE SplitFrom(_, _, _, _)
SplitFrom(s, seps, i, word) ==
    IF i > Len(s)
    THEN IF word = <<>> THEN <<>> ELSE <<word>>
    ELSE IF s[i] \in seps
         THEN IF word = <<>>
              THEN SplitFrom(s, seps, i + 1, <<>>)
              ELSE <<word>> \o SplitFrom(s, seps, i + 1, <<>>)
         ELSE SplitFrom(s, seps, i + 1, Append(word, s[i]))

str_split(s) == SplitFrom(s, Whitespace, 1, <<>>)

shlex_split(s) == SplitFrom(s, Whitespace, 1, <<>>)

\* os.path.basename: what follows the last "/"
RECURSIVE LastSlash(_, _)
LastSlash(s, i) == IF i = 0 THEN 0 ELSE IF s[i] = "/" THEN i ELSE LastSlash(s, i - 1)

basename(s) == SubSeq(s, LastSlash(s, Len(s)) + 1, Len(s))

\* bytes.rstrip(b"\r\n"): drops every trailing "\r" and "\n"
RECURSIVE rstrip(_)
rstrip(s) ==
    IF s # <<>> /\ s[Len(s)] \in {"\r", "\n"}
    THEN rstrip(SubSeq(s, 1, Len(s) - 1))
    ELSE s

(***************************************************************************)
(* The filesystem: directories that always exist, files that may.  A       *)
(* location is the sequence of its path components below the root, each a *)
(* name (a text).                                                          *)
(***************************************************************************)
Dirs == {<<>>, << <<"h">> >>, << <<"h">>, <<"w">> >>}
Files == {<< <<"h">>, <<"a">> >>, << <<"h">>, <<"w">>, <<"a">> >>}

\* the working directory a module process starts in
HomeDir == << <<"h">> >>

\* a character that to_bytes(errors='surrogate_or_strict') cannot encode
LoneSurrogate == "\\ud800"

\* os.path.abspath: the components of a path, taken from cwd when relative
PathComponents(path) == SplitFrom(path, {"/"}, 1, <<>>)

IsAbs(path) == path # <<>> /\ path[1] = "/"

abspath(path, cwd) ==
    IF IsAbs(path) THEN PathComponents(path) ELSE cwd \o PathComponents(path)

\* to_bytes(..., errors='surrogate_or_strict') raises ValueError
to_bytes_fails(path) == \E i \in 1..Len(path) : path[i] = LoneSurrogate

\* glob.glob(pattern): the existing entries the pattern matches, "*" standing
\* for any one component; a relative pattern is matched below cwd
glob(pattern, cwd, fs) ==
    LET want == abspath(pattern, cwd)
    IN  {e \in Dirs \cup fs :
            /\ Len(e) = Len(want)
            /\ \A i \in 1..Len(e) : want[i] = <<"*">> \/ want[i] = e[i]}

(***************************************************************************)
(* One invocation: the state of the module process.                        *)
(*   prepared               main has reached line 343                      *)
(*   exited, kind, payload  how the process ended (exit_json / fail_json)  *)
(*   args, args_is_list     main's local `args` and whether it is a list   *)
(*   executable             main's local `executable`                      *)
(*   cwd, fs, fs0           the process working directory, the files that  *)
(*                          exist, and those that did when it started      *)
(*   warnings               what module.warn was given, in order           *)
(*   events                 the calls with an effect outside main, in      *)
(*                          order: os.chdir, glob.glob, check_command,     *)
(*                          run_command                                    *)
(*   rc, out, err, startd, endd   main's locals of the same names          *)
(***************************************************************************)
Fresh(fs) ==
    [prepared |-> FALSE, exited |-> FALSE, kind |-> "running", payload |-> <<>>,
     args |-> None, args_is_list |-> FALSE, executable |-> None,
     cwd |-> HomeDir, fs |-> fs, fs0 |-> fs,
     warnings |-> <<>>, events |-> <<>>,
     rc |-> -1, out |-> <<>>, err |-> <<>>, startd |-> 0, endd |-> 0]

\* AnsibleModule.exit_json(**kwargs): report success and end the process
exit_json(r, kwargs) ==
    [r EXCEPT !.exited = TRUE, !.kind = "exit_json", !.payload = kwargs]

\* AnsibleModule.fail_json(**kwargs): report failure and end the process
fail_json(r, kwargs) ==
    [r EXCEPT !.exited = TRUE, !.kind = "fail_json", !.payload = kwargs]

\* AnsibleModule.warn(warning)
warn(r, warning) == [r EXCEPT !.warnings = Append(@, warning)]

Event(r, e) == [r EXCEPT !.events = Append(@, e)]

\* AnsibleModule.run_command: spawn the command and wait for it; what the
\* process prints, returns and does to the files is the environment's choice
run_command(r, env) ==
    [Event(r, "run_command") EXCEPT
        !.rc = env.rc, !.out = env.streams.out, !.err = env.streams.err,
        !.fs = env.fs]

(***************************************************************************)
(* check_command (lines 217-250).                                          *)
(***************************************************************************)
arguments ==
       <<"c", "h", "o", "w", "n">> :> "owner"
    @@ <<"c", "h", "m", "o", "d">> :> "mode"
    @@ <<"c", "h", "g", "r", "p">> :> "group"
    @@ <<"l", "n">> :> "state=link"
    @@ <<"m", "k", "d", "i", "r">> :> "state=directory"
    @@ <<"r", "m", "d", "i", "r">> :> "state=absent"
    @@ <<"r", "m">> :> "state=absent"
    @@ <<"t", "o", "u", "c", "h">> :> "state=touch"

commands ==
       <<"c", "u", "r", "l">> :> "get_url or uri"
    @@ <<"w", "g", "e", "t">> :> "get_url or uri"
    @@ <<"s", "v", "n">> :> "subversion"
    @@ <<"s", "e", "r", "v", "i", "c", "e">> :> "service"
    @@ <<"m", "o", "u", "n", "t">> :> "mount"
    @@ <<"r", "p", "m">> :> "yum, dnf or zypper"
    @@ <<"y", "u", "m">> :> "yum"
    @@ <<"a", "p", "t", "-", "g", "e", "t">> :> "apt"
    @@ <<"t", "a", "r">> :> "unarchive"
    @@ <<"u", "n", "z", "i", "p">> :> "unarchive"
    @@ <<"s", "e", "d">> :> "replace, lineinfile or template"
    @@ <<"d", "n", "f">> :> "dnf"
    @@ <<"z", "y", "p", "p", "e", "r">> :> "zypper"

become ==
    {<<"s", "u", "d", "o">>,
     <<"s", "u">>,
     <<"p", "b", "r", "u", "n">>,
     <<"p", "f", "e", "x", "e", "c">>,
     <<"r", "u", "n", "a", "s">>,
     <<"p", "m", "r", "u", "n">>,
     <<"m", "a", "c", "h", "i", "n", "e", "c", "t", "l">>}

\* the three message formats of check_command, and the arguments formatted
\* into them
FileAdvice == "Consider using the {mod} module with {subcmd} rather than running '{cmd}'."
ModuleAdvice == "Consider using the {mod} module rather than running '{cmd}'."
BecomeAdvice == "Consider using 'become', 'become_method', and 'become_user' rather than running %s"
ExecutableNotice == "As of Ansible 2.4, the parameter 'executable' is no longer supported with the 'command' module. Not using '%s'."

Warning(text, mod, subcmd, cmd) ==
    [text |-> text, mod |-> mod, subcmd |-> subcmd, cmd |-> cmd]

\* lines 227-231: the base name of the command
CommandName(commandline, is_list) ==
    basename(IF is_list THEN commandline[1] ELSE str_split(commandline)[1])

\* lines 238-250
check_command(r, commandline, is_list) ==
    LET command == CommandName(commandline, is_list)
        r1 == IF command \in DOMAIN arguments
              THEN warn(r, Warning(FileAdvice, "file", arguments[command], command))
              ELSE r
        r2 == IF command \in DOMAIN commands
              THEN warn(r1, Warning(ModuleAdvice, commands[command], "", command))
              ELSE r1
        r3 == IF command \in become
              THEN warn(r2, Warning(BecomeAdvice, "", "", command))
              ELSE r2
    IN  r3

(***************************************************************************)
(* main (lines 253-374), one operator per stretch of it.  Each takes the   *)
(* parameters p and the process r and gives the process after the stretch; *)
(* a process that has exited stays as it is.                               *)
(***************************************************************************)
Text(token) == <<token>>

\* lines 286-288: the legacy `executable` is dropped with a warning
ExecutableShim(p, r) ==
    IF ~p.shell /\ Truthy(p.executable)
    THEN [warn(r, Warning(ExecutableNotice, "", "", p.executable))
            EXCEPT !.executable = None]
    ELSE [r EXCEPT !.executable = p.executable]

\* ValidateInput without its second test: both forms given is let through
ValidateInput_NoConflictTest(p, r) ==
    IF r.exited THEN r
    ELSE IF (~Truthy(p.raw_params) \/ StripIsEmpty(p.raw_params)) /\ ~TruthyList(p.argv)
    THEN fail_json(r, [rc |-> 256, msg |-> Text("no command given")])
    ELSE r

\* lines 290-294
ValidateInput(p, r) ==
    IF r.exited THEN r
    ELSE IF (~Truthy(p.raw_params) \/ StripIsEmpty(p.raw_params)) /\ ~TruthyList(p.argv)
    THEN fail_json(r, [rc |-> 256, msg |-> Text("no command given")])
    ELSE IF Truthy(p.raw_params) /\ TruthyList(p.argv)
    THEN fail_json(r, [rc |-> 256,
                       msg |-> Text("only command or argv can be given, not both")])
    ELSE r

\* lines 296-303: args = shlex.split(args) without a shell, else args or argv
ResolveArgs(p, r) ==
    IF r.exited THEN r
    ELSE IF Truthy(p.raw_params)
    THEN IF ~p.shell
         THEN LET words == shlex_split(p.raw_params)
              IN  IF words # <<>>
                  THEN [r EXCEPT !.args = words, !.args_is_list = TRUE]
                  ELSE [r EXCEPT !.args = p.argv, !.args_is_list = TRUE]
         ELSE [r EXCEPT !.args = p.raw_params, !.args_is_list = FALSE]
    ELSE [r EXCEPT !.args = p.argv, !.args_is_list = TRUE]

\* the text of the exception os.chdir or to_bytes raised
ErrorText == "<exception text>"

\* lines 305-314
ChangeDirectory(p, r) ==
    IF r.exited \/ ~Truthy(p.chdir) THEN r
    ELSE IF to_bytes_fails(p.chdir)
    THEN fail_json(r, [msg |-> <<"Unable to use supplied chdir: ", ErrorText>>])
    ELSE LET dir == abspath(p.chdir, r.cwd)
             r1 == Event(r, "os.chdir")
         IN  IF dir \in Dirs
             THEN [r1 EXCEPT !.cwd = dir]
             ELSE fail_json(r1, [msg |-> <<"Unable to change directory before execution: ",
                                           ErrorText>>])

\* CreatesGate with the test of RemovesGate: it skips when nothing matches
CreatesGate_SkipsWhenAbsent(p, r) ==
    IF r.exited \/ ~Truthy(p.creates) THEN r
    ELSE LET r1 == Event(r, "glob.glob(creates)")
         IN  IF glob(p.creates, r.cwd, r.fs) = {}
             THEN exit_json(r1, [cmd |-> r.args,
                                 stdout |-> <<"skipped, since ">> \o p.creates \o <<" exists">>,
                                 changed |-> FALSE,
                                 rc |-> 0])
             ELSE r1

\* CreatesGate matching the pattern in the directory the process started in
CreatesGate_LooksInHome(p, r) ==
    IF r.exited \/ ~Truthy(p.creates) THEN r
    ELSE LET r1 == Event(r, "glob.glob(creates)")
         IN  IF glob(p.creates, HomeDir, r.fs) # {}
             THEN exit_json(r1, [cmd |-> r.args,
                                 stdout |-> <<"skipped, since ">> \o p.creates \o <<" exists">>,
                                 changed |-> FALSE,
                                 rc |-> 0])
             ELSE r1

\* lines 316-326
CreatesGate(p, r) ==
    IF r.exited \/ ~Truthy(p.creates) THEN r
    ELSE LET r1 == Event(r, "glob.glob(creates)")
         IN  IF glob(p.creates, r.cwd, r.fs) # {}
             THEN exit_json(r1, [cmd |-> r.args,
                                 stdout |-> <<"skipped, since ">> \o p.creates \o <<" exists">>,
                                 changed |-> FALSE,
                                 rc |-> 0])
             ELSE r1

\* lines 328-338
RemovesGate(p, r) ==
    IF r.exited \/ ~Truthy(p.removes) THEN r
    ELSE LET r1 == Event(r, "glob.glob(removes)")
         IN  IF glob(p.removes, r.cwd, r.fs) = {}
             THEN exit_json(r1, [cmd |-> r.args,
                                 stdout |-> <<"skipped, since ">> \o p.removes
                                            \o <<" does not exist">>,
                                 changed |-> FALSE,
                                 rc |-> 0])
             ELSE r1

\* Advise refusing a command it has an advisory for
Advise_Refuses(p, r) ==
    IF r.exited \/ ~p.warn THEN r
    ELSE LET r1 == check_command(Event(r, "check_command"), r.args, r.args_is_list)
         IN  IF r1.warnings # r.warnings
             THEN fail_json(r1, [msg |-> Text("discouraged command")])
             ELSE r1

\* lines 340-341
Advise(p, r) ==
    IF r.exited \/ ~p.warn THEN r
    ELSE check_command(Event(r, "check_command"), r.args, r.args_is_list)

\* what run_command is left with when the module is in check mode
WouldHaveRun ==
    <<"C", "o", "m", "m", "a", "n", "d", " ", "w", "o", "u", "l", "d", " ",
      "h", "a", "v", "e", " ", "r", "u", "n", " ", "i", "f", " ", "n", "o", "t", " ",
      "i", "n", " ", "c", "h", "e", "c", "k", " ", "m", "o", "d", "e">>

\* ExecuteOrSimulate without its last branch: check mode always simulates
ExecuteOrSimulate_AlwaysSimulates(p, r, env) ==
    IF r.exited THEN r
    ELSE LET r1 == [r EXCEPT !.startd = env.now]
         IN  IF ~p.check_mode
             THEN run_command(r1, env)
             ELSE [r1 EXCEPT !.rc = 0, !.out = WouldHaveRun, !.err = WouldHaveRun]

\* ExecuteOrSimulate running the command in check mode when a guard is set
ExecuteOrSimulate_RunsGuarded(p, r, env) ==
    IF r.exited THEN r
    ELSE LET r1 == [r EXCEPT !.startd = env.now]
         IN  IF ~p.check_mode \/ Truthy(p.creates) \/ Truthy(p.removes)
             THEN run_command(r1, env)
             ELSE exit_json(r1, [msg |-> Text("skipped, running in check mode"),
                                 skipped |-> TRUE])

\* lines 343-351
ExecuteOrSimulate(p, r, env) ==
    IF r.exited THEN r
    ELSE LET r1 == [r EXCEPT !.startd = env.now]
         IN  IF ~p.check_mode
             THEN run_command(r1, env)
             ELSE IF Truthy(p.creates) \/ Truthy(p.removes)
             THEN [r1 EXCEPT !.rc = 0, !.out = WouldHaveRun, !.err = WouldHaveRun]
             ELSE exit_json(r1, [msg |-> Text("skipped, running in check mode"),
                                 skipped |-> TRUE])

\* lines 353-358
Normalize(p, r, env) ==
    IF r.exited THEN r
    ELSE LET r1 == [r EXCEPT !.endd = r.startd + env.dur]
         IN  IF p.strip_empty_ends
             THEN [r1 EXCEPT !.out = rstrip(@), !.err = rstrip(@)]
             ELSE r1

\* str() of a datetime or a timedelta
str(t) == Text(ToString(t))

\* lines 360-369
Result(r) ==
    [cmd |-> r.args, stdout |-> r.out, stderr |-> r.err, rc |-> r.rc,
     start |-> str(r.startd), end |-> str(r.endd), delta |-> str(r.endd - r.startd),
     changed |-> TRUE]

\* Report with changed following the exit code
Report_ChangedOnSuccess(p, r) ==
    IF r.exited THEN r
    ELSE IF r.rc # 0
    THEN fail_json(r, [msg |-> Text("non-zero return code")]
                      @@ [Result(r) EXCEPT !.changed = FALSE])
    ELSE exit_json(r, Result(r))

\* lines 360-374
Report(p, r) ==
    IF r.exited THEN r
    ELSE IF r.rc # 0
    THEN fail_json(r, [msg |-> Text("non-zero return code")] @@ Result(r))
    ELSE exit_json(r, Result(r))

\* Prepare entering the working directory before it validates the input
Prepare_ChdirFirst(p, r) ==
    LET entered == ChangeDirectory(p, ExecutableShim(p, r))
        resolved == ResolveArgs(p, ValidateInput(p, entered))
        gated == RemovesGate(p, CreatesGate(p, resolved))
        advised == Advise(p, gated)
    IN  [advised EXCEPT !.prepared = TRUE]

\* Prepare advising before the gate
Prepare_AdviseFirst(p, r) ==
    LET resolved == ResolveArgs(p, ValidateInput(p, ExecutableShim(p, r)))
        entered == ChangeDirectory(p, resolved)
        advised == Advise(p, entered)
        gated == RemovesGate(p, CreatesGate(p, advised))
    IN  [gated EXCEPT !.prepared = TRUE]

\* Prepare evaluating the gate before it enters the working directory
Prepare_GateFirst(p, r) ==
    LET resolved == ResolveArgs(p, ValidateInput(p, ExecutableShim(p, r)))
        gated == RemovesGate(p, CreatesGate(p, resolved))
        entered == ChangeDirectory(p, gated)
        advised == Advise(p, entered)
    IN  [advised EXCEPT !.prepared = TRUE]

\* lines 253-341: main up to the point where it starts the clock and runs
\* the command, the stretches in the order main runs them
Prepare(p, r) ==
    LET resolved == ResolveArgs(p, ValidateInput(p, ExecutableShim(p, r)))
        entered == ChangeDirectory(p, resolved)
        gated == RemovesGate(p, CreatesGate(p, entered))
        advised == Advise(p, gated)
    IN  [advised EXCEPT !.prepared = TRUE]

\* lines 343-374: main from there to its exit
Execute(p, r, env) ==
    Report(p, Normalize(p, ExecuteOrSimulate(p, r, env), env))

(***************************************************************************)
(* The parameters the host hands over (lines 257-284, and check_mode), and *)
(* what the spawned process may do.                                        *)
(***************************************************************************)
RawParams == {None, <<>>, <<" ">>, <<"/", "b", "/", "r", "m", " ", "a">>}
Argvs == {NoneList, <<>>, << <<"l", "s">> >>, << <<"s", "u", "d", "o">>, <<"l", "s">> >>}
Executables == {None, <<"s", "h">>}
Chdirs == {None, <<"w">>, <<"/", "x">>, <<LoneSurrogate>>}
Patterns == {None, <<"a">>, <<"/", "h", "/", "w", "/", "*">>}

Params ==
    [raw_params : RawParams, argv : Argvs, shell : BOOLEAN, executable : Executables,
     chdir : Chdirs, creates : Patterns, removes : Patterns,
     warn : BOOLEAN, strip_empty_ends : BOOLEAN, check_mode : BOOLEAN]

\* what a spawned process writes to its stdout and stderr
Streams ==
    {[out |-> <<"o">>, err |-> <<>>],
     [out |-> <<"a", "\n", "b", "\n", "\n">>, err |-> <<"e", "\r", "\n">>]}

\* the exit code, the output and the files a spawned process leaves, the
\* time it takes and the clock when it starts
Envs ==
    [rc : 0..MaxRc, streams : Streams, fs : SUBSET Files,
     dur : 0..MaxDur, now : {0}]

\* the earlier invocations of the same task: whether there was one, whether
\* one of them spawned the command, whether the last one reported changed
NoLast == [any |-> FALSE, spawned |-> FALSE, changed |-> FALSE]

Spawned(r) == \E i \in 1..Len(r.events) : r.events[i] = "run_command"

Changed(r) == "changed" \in DOMAIN r.payload /\ r.payload.changed

Init ==
    /\ params \in Params
    /\ \E fs \in SUBSET Files : inv = Fresh(fs)
    /\ twin = inv
    /\ last = NoLast

\* the module process runs main up to line 343
Start ==
    /\ ~inv.prepared
    /\ inv' = Prepare(params, inv)
    /\ UNCHANGED <<params, twin, last>>

\* the module process runs, or simulates, the command and reports
Finish ==
    /\ inv.prepared /\ ~inv.exited
    /\ \E env \in Envs : inv' = Execute(params, inv, env)
    /\ UNCHANGED <<params, twin, last>>

\* lines 377-378: the host runs the same task again, in a new process, on
\* the files the last one left
Reinvoke ==
    /\ inv.exited
    /\ inv' = Fresh(inv.fs)
    /\ last' = [any |-> TRUE, spawned |-> last.spawned \/ Spawned(inv),
                changed |-> Changed(inv)]
    /\ UNCHANGED <<params, twin>>

Next == Start \/ Finish \/ Reinvoke

Spec == Init /\ [][Next]_vars

(***************************************************************************)
(* The same task run twice on the same files and with the same behaviour   *)
(* of the spawned process, once as given and once with `warn` negated.     *)
(***************************************************************************)
OtherWarn(p) == [p EXCEPT !.warn = ~p.warn]

TwinStart ==
    /\ ~inv.prepared
    /\ inv' = Prepare(params, inv)
    /\ twin' = Prepare(OtherWarn(params), twin)
    /\ UNCHANGED <<params, last>>

TwinFinish ==
    /\ inv.prepared /\ twin.prepared
    /\ ~inv.exited \/ ~twin.exited
    /\ \E env \in Envs :
          /\ inv' = Execute(params, inv, env)
          /\ twin' = Execute(OtherWarn(params), twin, env)
    /\ UNCHANGED <<params, last>>

TwinNext == TwinStart \/ TwinFinish

TwinSpec == Init /\ [][TwinNext]_vars

(***************************************************************************)
(* What the claims speak of.                                               *)
(***************************************************************************)
\* the free-form string is absent, empty or only whitespace
RawBlank == params.raw_params \in {None, <<>>} \/
            \A i \in 1..Len(params.raw_params) : params.raw_params[i] \in {" ", "\t", "\n", "\r"}
RawGiven == params.raw_params \notin {None, <<>>}
ArgvGiven == params.argv \notin {NoneList, <<>>}
NoCommandGiven == RawBlank /\ ~ArgvGiven
ConflictingForms == RawGiven /\ ArgvGiven
ValidInput == ~NoCommandGiven /\ ~ConflictingForms

ChdirGiven == params.chdir \notin {None, <<>>}
CreatesSet == params.creates \notin {None, <<>>}
RemovesSet == params.removes \notin {None, <<>>}

\* the working directory, if one was given, has been entered
DirEntered == ChdirGiven => inv.cwd = abspath(params.chdir, HomeDir)

\* the gate has been reached: main ran up to it without a fatal error
GateReached == inv.prepared /\ ValidInput /\ DirEntered

\* what the patterns match, in the working directory, when the gate looks
CreatesMatches == CreatesSet /\ glob(params.creates, inv.cwd, inv.fs0) # {}
RemovesMisses == RemovesSet /\ glob(params.removes, inv.cwd, inv.fs0) = {}

Happened(e) == \E i \in 1..Len(inv.events) : inv.events[i] = e
Before(e, f) ==
    \A i, j \in 1..Len(inv.events) :
        inv.events[i] = e /\ inv.events[j] = f => i < j

Fields(r) == DOMAIN r.payload

\* the invocation ended as a skip of the gate, with the given text
SkippedWith(text) ==
    /\ inv.exited /\ inv.kind = "exit_json"
    /\ Fields(inv) = {"cmd", "stdout", "changed", "rc"}
    /\ inv.payload.changed = FALSE
    /\ inv.payload.rc = 0
    /\ inv.payload.stdout = text
    /\ ~Happened("run_command")

GateSkip == inv.exited /\ Fields(inv) = {"cmd", "stdout", "changed", "rc"}

\* C1: once the input is valid and the working directory entered, a matching
\* creates pattern ends the invocation as "skipped, since <pattern> exists"
\* (changed false, rc 0, nothing spawned, removes not looked at), whatever
\* removes and check mode are; otherwise a removes pattern that matches
\* nothing ends it as "skipped, since <pattern> does not exist"; otherwise
\* the gate lets main go on.  creates is looked at before removes.
C1_Gate ==
    GateReached =>
        /\ CreatesMatches =>
              /\ SkippedWith(<<"skipped, since ">> \o params.creates \o <<" exists">>)
              /\ ~Happened("glob.glob(removes)")
        /\ ~CreatesMatches /\ RemovesMisses =>
              SkippedWith(<<"skipped, since ">> \o params.removes \o <<" does not exist">>)
        /\ ~CreatesMatches /\ ~RemovesMisses => ~GateSkip
        /\ Before("glob.glob(creates)", "glob.glob(removes)")
        /\ CreatesSet => Happened("glob.glob(creates)")

\* a creates skip with removes set and missing too, in check mode
C1_Witness ==
    /\ GateReached /\ CreatesMatches /\ RemovesMisses /\ params.check_mode
    /\ inv.exited

\* C2: a blank free-form string with no argument list fails with rc 256 and
\* "no command given"; a non-empty free-form string together with a
\* non-empty argument list fails with rc 256; neither spawns anything, and
\* every other input passes validation.
C2_Validation ==
    inv.prepared =>
        /\ NoCommandGiven =>
              /\ inv.exited /\ inv.kind = "fail_json"
              /\ inv.payload = [rc |-> 256, msg |-> <<"no command given">>]
              /\ ~Happened("run_command")
        /\ ConflictingForms =>
              /\ inv.exited /\ inv.kind = "fail_json"
              /\ Fields(inv) = {"rc", "msg"}
              /\ inv.payload.rc = 256
              /\ inv.payload.msg # <<"no command given">>
              /\ ~Happened("run_command")
        /\ ValidInput => ~("rc" \in Fields(inv) /\ inv.payload.rc = 256)

\* a whitespace-only string with an empty list, and both forms given
C2_Witness ==
    /\ inv.exited
    /\ params.raw_params = <<" ">> /\ params.argv = <<>>
    /\ inv.payload.rc = 256

CheckModeUnguarded == params.check_mode /\ ~CreatesSet /\ ~RemovesSet

CheckModeSkip ==
    /\ inv.exited /\ inv.kind = "exit_json"
    /\ inv.payload = [msg |-> <<"skipped, running in check mode">>, skipped |-> TRUE]

NotChanged == ~("changed" \in Fields(inv) /\ inv.payload.changed)

\* C3 as stated: in check mode with neither pattern set every invocation,
\* whatever its other parameters, ends as the check-mode skip, spawns nothing
\* and does not report changed.
C3_AsStated ==
    CheckModeUnguarded /\ inv.exited =>
        CheckModeSkip /\ ~Happened("run_command") /\ NotChanged

\* C3, amended: in check mode with neither pattern set no invocation spawns
\* a process or reports changed, and every invocation whose input passes
\* validation and whose working directory, if one is given, is entered ends
\* as the check-mode skip.
C3_CheckModeSkip ==
    CheckModeUnguarded =>
        /\ ~Happened("run_command")
        /\ NotChanged
        /\ inv.exited /\ ValidInput /\ DirEntered => CheckModeSkip

C3_Witness ==
    /\ CheckModeUnguarded /\ inv.exited /\ ValidInput /\ ChdirGiven /\ DirEntered
    /\ params.warn

\* the gate was reached and let main go on
GatePassed == GateReached /\ ~CreatesMatches /\ ~RemovesMisses

\* C4: in check mode with a pattern set and the gate passed, nothing is
\* spawned and the invocation reports success with rc 0, the placeholder
\* text and changed true; in check mode nothing is ever spawned.
C4_CheckModeSimulates ==
    params.check_mode =>
        /\ ~Happened("run_command")
        /\ (CreatesSet \/ RemovesSet) /\ GatePassed /\ inv.exited =>
              /\ inv.kind = "exit_json"
              /\ inv.payload.rc = 0
              /\ inv.payload.stdout = WouldHaveRun
              /\ inv.payload.changed = TRUE

C4_Witness ==
    /\ params.check_mode /\ RemovesSet /\ ~CreatesSet /\ GatePassed /\ inv.exited
    /\ inv.fs = inv.fs0

ResultFields == {"cmd", "stdout", "stderr", "rc", "start", "end", "delta", "changed"}

\* what a success reports, from main's locals
SuccessPayload ==
    [cmd |-> inv.args, stdout |-> inv.out, stderr |-> inv.err, rc |-> inv.rc,
     start |-> <<ToString(inv.startd)>>, end |-> <<ToString(inv.endd)>>,
     delta |-> <<ToString(inv.endd - inv.startd)>>, changed |-> TRUE]

\* C5: a real execution reports changed true whatever the exit code; exit
\* code 0 is a success, any other a failure "non-zero return code" whose
\* cmd, stdout, stderr, rc, start, end, delta and changed are those a success
\* would have carried.
C5_RealExecution ==
    ~params.check_mode /\ Happened("run_command") /\ inv.exited =>
        /\ inv.payload.changed = TRUE
        /\ inv.payload.rc = 0 =>
              inv.kind = "exit_json" /\ Fields(inv) = ResultFields
        /\ inv.payload.rc # 0 =>
              /\ inv.kind = "fail_json"
              /\ Fields(inv) = ResultFields \cup {"msg"}
              /\ inv.payload.msg = <<"non-zero return code">>
        /\ \A f \in ResultFields : inv.payload[f] = SuccessPayload[f]

C5_Witness ==
    /\ ~params.check_mode /\ Happened("run_command") /\ inv.exited
    /\ inv.payload.rc # 0
    /\ params.strip_empty_ends /\ inv.payload.stdout = <<"a", "\n", "b">>

\* C6: with a creates guard and not in check mode, an invocation that finds
\* nothing matching the guard (and passes the gate) spawns the command and
\* reports changed true; once an earlier invocation of the same task has
\* spawned it and the guarded artifact exists, every later invocation of the
\* task, on the files as they were left, spawns nothing and reports changed
\* false.
C6_Idempotence ==
    ~params.check_mode /\ CreatesSet /\ inv.exited =>
        /\ GatePassed =>
              Happened("run_command") /\ inv.payload.changed = TRUE
        /\ last.any /\ last.spawned /\ CreatesMatches =>
              /\ ~Happened("run_command")
              /\ inv.payload.changed = FALSE
              /\ inv.fs = inv.fs0

\* the third invocation: the first spawned, the second was skipped
C6_Witness ==
    /\ ~params.check_mode /\ CreatesSet /\ inv.exited
    /\ last.any /\ last.spawned /\ ~last.changed /\ CreatesMatches
    /\ ChdirGiven

DirectoryFailure ==
    /\ inv.exited /\ inv.kind = "fail_json"
    /\ Fields(inv) = {"msg"}
    /\ inv.payload.msg[1] =
          IF \E i \in 1..Len(params.chdir) : params.chdir[i] = LoneSurrogate
          THEN "Unable to use supplied chdir: "
          ELSE "Unable to change directory before execution: "

\* C7: an invalid input, and a working directory that cannot be resolved or
\* entered, end the invocation with a failure and nothing spawned; after an
\* invalid input the working directory is the one the process started in
\* and no glob was evaluated.
C7_FatalBeforeSpawn ==
    inv.prepared =>
        /\ ~ValidInput =>
              /\ inv.exited /\ inv.kind = "fail_json" /\ inv.payload.rc = 256
              /\ ~Happened("run_command")
              /\ inv.cwd = HomeDir /\ ~Happened("os.chdir")
              /\ ~Happened("glob.glob(creates)") /\ ~Happened("glob.glob(removes)")
        /\ ValidInput /\ ~DirEntered =>
              DirectoryFailure /\ ~Happened("run_command")

C7_Witness ==
    /\ inv.prepared /\ ~ValidInput
    /\ params.chdir = <<"w">> /\ CreatesSet
    /\ glob(params.creates, HomeDir, inv.fs0) # {}

Advisory(w) == w.text \in {FileAdvice, ModuleAdvice, BecomeAdvice}
Advisories(r) == {i \in 1..Len(r.warnings) : Advisory(r.warnings[i])}

\* C8 as stated: with warn on and a valid command, the advisory step has run
\* before the gate is evaluated.
C8_AsStated ==
    inv.prepared /\ params.warn /\ ValidInput
        /\ (Happened("glob.glob(creates)") \/ Happened("glob.glob(removes)")) =>
            /\ Happened("check_command")
            /\ Before("check_command", "glob.glob(creates)")
            /\ Before("check_command", "glob.glob(removes)")

\* C8, amended: the order is resolve, gate, advise, execute-or-simulate: with
\* warn on and a valid command the gate is evaluated before the advisory
\* step, an invocation the gate short-circuits has run no advisory step and
\* emitted no advisory, and an invocation that passes the gate has run it,
\* and emitted the advisory of a matching base command, before the command
\* is run or simulated.
C8_GateBeforeAdvice ==
    inv.prepared /\ params.warn /\ ValidInput =>
        /\ Before("os.chdir", "check_command")
        /\ Before("glob.glob(creates)", "check_command")
        /\ Before("glob.glob(removes)", "check_command")
        /\ Before("check_command", "run_command")
        /\ GateSkip => ~Happened("check_command") /\ Advisories(inv) = {}
        /\ GatePassed =>
              /\ Happened("check_command")
              /\ params.raw_params = <<"/", "b", "/", "r", "m", " ", "a">> =>
                    \E i \in Advisories(inv) :
                        /\ inv.warnings[i].text = FileAdvice
                        /\ inv.warnings[i].cmd = <<"r", "m">>
              /\ params.argv = << <<"s", "u", "d", "o">>, <<"l", "s">> >> =>
                    \E i \in Advisories(inv) :
                        /\ inv.warnings[i].text = BecomeAdvice
                        /\ inv.warnings[i].cmd = <<"s", "u", "d", "o">>
              /\ params.argv = << <<"l", "s">> >> => Advisories(inv) = {}

C8_Witness ==
    /\ inv.prepared /\ params.warn /\ ValidInput /\ GateSkip
    /\ params.raw_params = <<"/", "b", "/", "r", "m", " ", "a">>
    /\ inv.warnings = <<>>

NonAdvisories(r) == SelectSeq(r.warnings, LAMBDA w : ~Advisory(w))

\* C9: two invocations that differ only in warn end the same way: the same
\* success or failure with the same payload, the same process spawned or
\* none, the same files and working directory; only the advisories differ,
\* and the one with warn off emits none.
C9_AdviceObservational ==
    /\ inv.prepared => twin.prepared /\ inv.exited = twin.exited
    /\ inv.exited /\ twin.exited =>
          /\ inv.kind = twin.kind
          /\ inv.payload = twin.payload
          /\ Spawned(inv) = Spawned(twin)
          /\ inv.fs = twin.fs /\ inv.cwd = twin.cwd
          /\ NonAdvisories(inv) = NonAdvisories(twin)
          /\ Advisories(IF params.warn THEN twin ELSE inv) = {}

C9_Witness ==
    /\ inv.exited /\ twin.exited
    /\ Spawned(inv) /\ inv.payload.rc # 0
    /\ params.warn /\ Advisories(inv) # {} /\ Len(inv.warnings) > 1

\* the directory given cannot be resolved or entered
ChdirImpossible == ChdirGiven /\ abspath(params.chdir, HomeDir) \notin Dirs

\* C10: with a valid command and a working directory given, the directory
\* is entered before the gate looks: an invocation that ends as a gate skip
\* or as the check-mode skip has changed the working directory and spawned
\* nothing, and a directory that cannot be entered ends the invocation with
\* the directory failure whatever the patterns match and whatever check
\* mode is.
C10_ChdirBeforeGate ==
    inv.prepared /\ ValidInput /\ ChdirGiven =>
        /\ Before("os.chdir", "glob.glob(creates)")
        /\ Before("os.chdir", "glob.glob(removes)")
        /\ GateSkip \/ CheckModeSkip =>
              /\ Happened("os.chdir")
              /\ inv.cwd = abspath(params.chdir, HomeDir)
              /\ inv.cwd # HomeDir
              /\ ~Happened("run_command")
        /\ ChdirImpossible =>
              /\ DirectoryFailure
              /\ ~Happened("glob.glob(creates)") /\ ~Happened("glob.glob(removes)")

\* a skip by a pattern that matches only in the directory entered
C10_Witness ==
    /\ inv.prepared /\ ValidInput /\ ChdirGiven /\ GateSkip
    /\ CreatesMatches
    /\ glob(params.creates, HomeDir, inv.fs0) = {}

====
